---- MODULE Spec2Model ----
(***************************************************************************)
(* A model of the RAGchat chunk store (frontend/src/lib/storage.ts) and    *)
(* of the ranker (frontend/src/lib/vector-math.ts).                        *)
(*                                                                         *)
(* Spec      the chunk store under concurrent appendChunk, clearChunks and *)
(*           loadAllChunks calls, starting from the uninitialized medium.  *)
(* SpecLoad  loadAllChunks over chunk files with arbitrary lines.          *)
(* SpecRank  rankChunks over bounded candidate lists.                      *)
(*                                                                         *)
(* A JavaScript string is a sequence of tokens; a JavaScript value carries *)
(* its runtime type as a tag, so that JSON.stringify, JSON.parse and the   *)
(* truthiness tests of the loader are computed and not assumed.            *)
(***************************************************************************)
EXTENDS Integers, Sequences, FiniteSets, TLC

VARIABLES
    dirExists,   \* the .data directory exists
    fileExists,  \* .data/document_chunks.jsonl exists
    file,        \* its content: a sequence of fragments
    holder,      \* the caller inside writeLock's critical section, 0 when free
    queue,       \* callers waiting on writeLock, in arrival order
    pc,          \* per call: the position it has reached
    arg,         \* per caller: the chunk handed to appendChunk
    fullChunk,   \* per caller: the DocumentChunk built by appendChunk
    result,      \* per caller: outcome of the finished call
    nextUuid,    \* number of ids uuidv4() has handed out
    calls,       \* number of calls started so far
    faults,      \* number of storage faults injected
    completed,   \* history: appends completed since the last unlink
    log,         \* history: the calls that have finished, in order
    snap,        \* per caller: what its call saw when it touched the file
    rankArgs,    \* the arguments of the rankChunks call
    rankResult,  \* what rankChunks returned, or that it threw
    ctArgs,      \* the arguments of the chunkText call
    ctPc,        \* the position the chunkText call has reached
    sentences,   \* chunkText: the sentences the loop has still to take
    currentChunk,   \* chunkText: the buffer
    previousChunk,  \* chunkText: the chunk closed last
    ctChunks,    \* chunkText: the chunks emitted so far, returned at the end
    closings,    \* history: the chunks closed inside the loop, with what followed
    ing,         \* per ingestion: the state of the POST handler of a document
    embed,       \* the generateEmbedding call
    chat,        \* the POST handler of a question
    health,      \* the GET handler of the health route
    ui           \* the query state of the page and its requests

storeVars == <<dirExists, fileExists, file, holder, queue, pc, arg, fullChunk,
               result, nextUuid, calls, faults, completed, log, snap>>

rankVars == <<rankArgs, rankResult>>

chunkVars == <<ctArgs, ctPc, sentences, currentChunk, previousChunk, ctChunks, closings>>

handlerVars == <<ing, embed, chat, health, ui>>

vars == <<storeVars, rankVars, chunkVars, handlerVars>>

----------------------------------------------------------------------------
(* Bounds *)

MaxCalls == 3
MaxFaults == 1
MaxLines == 3
MaxCandidates == 3
MaxTopK == 3
MaxSentences == 4

\* The calls made on the store, numbered in the order they are started; any
\* number of them may be in flight together.
Callers == 1..MaxCalls

----------------------------------------------------------------------------
(* JavaScript values *)

Str(s) == [t |-> "str", s |-> s]
Num(n) == [t |-> "num", n |-> n]
Arr(a) == [t |-> "arr", a |-> a]
Obj(o) == [t |-> "obj", o |-> o]
NaN == [t |-> "nan"]
Null == [t |-> "null"]
Undefined == [t |-> "undefined"]

\* !v
Falsy(v) ==
    \/ v.t \in {"undefined", "null", "nan"}
    \/ v.t = "str" /\ v.s = <<>>
    \/ v.t = "num" /\ v.n = 0

\* Array.isArray(v)
IsArray(v) == v.t = "arr"

\* obj.name for an object value: undefined when the property is absent
Prop(v, name) == IF name \in DOMAIN v.o THEN v.o[name] ELSE Undefined

\* JSON.stringify followed by reading the text back as a JSON value: a
\* non-finite number is written as null, an undefined property is left out.
RECURSIVE Stringify(_)
Stringify(v) ==
    CASE v.t = "nan" -> Null
      [] v.t = "arr" -> Arr([i \in DOMAIN v.a |-> Stringify(v.a[i])])
      [] v.t = "obj" ->
            LET kept == {f \in DOMAIN v.o : v.o[f].t # "undefined"}
            IN  Obj([f \in kept |-> Stringify(v.o[f])])
      [] OTHER -> v

\* uuidv4(): the n-th id handed out
Uuids == << <<"u1">>, <<"u2">>, <<"u3">>, <<"u4">>, <<"u5">>, <<"u6">> >>
uuidv4(n) == Str(Uuids[n])

\* { id: uuidv4(), ...chunk }: the properties of chunk are spread over the
\* generated id.
FullChunk(chunk, uuid) ==
    Obj([f \in {"id"} \cup DOMAIN chunk.o |->
            IF f \in DOMAIN chunk.o THEN chunk.o[f] ELSE uuid])

\* The chunks callers hand to appendChunk.
Chunk(doc, text, emb) ==
    Obj([doc |-> Str(doc), text |-> Str(text), embedding |-> Arr(emb),
         similarity |-> Num(0)])

ChunkA == Chunk(<<"a.txt">>, <<"cat", " ", "sat">>, <<Num(3), Num(4)>>)
ChunkEmptyText == Chunk(<<"a.txt">>, <<>>, <<Num(3), Num(4)>>)
ChunkWithId ==
    Obj([id |-> Str(<<"x">>), doc |-> Str(<<"b.txt">>), text |-> Str(<<"stock">>),
         embedding |-> Arr(<<Num(4), Num(3)>>), similarity |-> Num(0)])

InputChunks == {ChunkA, ChunkEmptyText, ChunkWithId}

----------------------------------------------------------------------------
(* The chunk file *)

\* A fragment of the file's text.
Line(v) == [k |-> "line", v |-> v]          \* JSON text of v, then "\n"
Pre(v) == [k |-> "pre", v |-> v]            \* a strict prefix of that text
Suf(v) == [k |-> "suf", v |-> v]            \* the rest of it, then "\n"
Garbage == [k |-> "garbage", v |-> Null]    \* text that is not JSON, then "\n"
Blank == [k |-> "blank", v |-> Null]        \* white space, then "\n"

EndsLine(frag) == frag.k # "pre"

\* data.split('\n'): the fragments between two line ends
RECURSIVE SplitLines(_, _)
SplitLines(frags, cur) ==
    IF frags = <<>> THEN (IF cur = <<>> THEN <<>> ELSE <<cur>>)
    ELSE IF EndsLine(Head(frags))
         THEN <<Append(cur, Head(frags))>> \o SplitLines(Tail(frags), <<>>)
         ELSE SplitLines(Tail(frags), Append(cur, Head(frags)))

\* line.trim() is empty
IsBlankLine(line) == \A i \in DOMAIN line : line[i].k = "blank"

\* JSON.parse(line): the value, or the failure of the parse
ParseOkBad(line) == line[1].k \in {"line", "pre"}

ParseOk(line) ==
    \/ Len(line) = 1 /\ line[1].k = "line"
    \/ Len(line) = 2 /\ line[1].k = "pre" /\ line[2].k = "suf" /\ line[1].v = line[2].v

ParseValue(line) == line[1].v

\* The structural test of loadAllChunks; reading a property of null throws
\* inside the same try block.
PassesValidation(parsed) ==
    /\ parsed.t = "obj"
    /\ ~Falsy(Prop(parsed, "id"))
    /\ ~Falsy(Prop(parsed, "doc"))
    /\ ~Falsy(Prop(parsed, "text"))
    /\ IsArray(Prop(parsed, "embedding"))

KeepsLineBad(line) == ParseOk(line)

\* A line is kept when it parses and passes the structural test.
KeepsLine(line) == ParseOk(line) /\ PassesValidation(ParseValue(line))

\* The loop of loadAllChunks over the non-blank lines.
RECURSIVE LoadLoop(_, _, _)
LoadLoop(lines, chunks, skipped) ==
    IF lines = <<>> THEN [chunks |-> chunks, skipped |-> skipped]
    ELSE IF KeepsLine(Head(lines))
         THEN LoadLoop(Tail(lines), Append(chunks, ParseValue(Head(lines))), skipped)
         ELSE LoadLoop(Tail(lines), chunks, skipped + 1)

NonBlankLines(frags) ==
    SelectSeq(SplitLines(frags, <<>>), LAMBDA l : ~IsBlankLine(l))

ParseFile(frags) == LoadLoop(NonBlankLines(frags), <<>>, 0)

----------------------------------------------------------------------------
(* Storage faults: an I/O call may fail for a reason other than ENOENT *)

FaultChoices == IF faults < MaxFaults THEN {FALSE, TRUE} ELSE {FALSE}

NoResult == [op |-> "none", status |-> "none", chunks |-> <<>>, skipped |-> 0]
Ok(op, chunks, skipped) ==
    [op |-> op, status |-> "ok", chunks |-> chunks, skipped |-> skipped]
Failed(op) == [op |-> op, status |-> "error", chunks |-> <<>>, skipped |-> 0]

\* What a call saw: the appends completed when it read or unlinked the file,
\* whether an append was half written then, whether the file was absent, and
\* whether a storage fault hit the call.
NoSnap == [completed |-> <<>>, torn |-> FALSE, absent |-> FALSE, faulted |-> FALSE]

Entry(r) == [op |-> r.op, status |-> r.status]

\* rankChunks not called, and not returned
NoArgs == [query |-> <<>>, queryEmbedding |-> <<>>, chunks |-> <<>>, topK |-> 0]
NotRanked == [status |-> "none", ranked |-> <<>>]

\* chunkText not called
NoText == [text |-> <<>>, targetChunkSize |-> 0, overlapPercent |-> 0]
NotChunking ==
    /\ ctArgs = NoText
    /\ ctPc = "none"
    /\ sentences = <<>>
    /\ currentChunk = <<>>
    /\ previousChunk = <<>>
    /\ ctChunks = <<>>
    /\ closings = <<>>

\* The ingestions, numbered in the order their handlers start
Ingests == {1, 2}

\* No handler running
NoHandler == [pc |-> "none"]
HandlersIdle ==
    /\ ing = [i \in Ingests |-> NoHandler]
    /\ embed = NoHandler
    /\ chat = NoHandler
    /\ health = NoHandler
    /\ ui = NoHandler

InCS(c) == pc[c] \in {"a_write", "a_rest", "c_unlink"}

Init ==
    /\ dirExists = FALSE
    /\ fileExists = FALSE
    /\ file = <<>>
    /\ holder = 0
    /\ queue = <<>>
    /\ pc = [c \in Callers |-> "idle"]
    /\ arg = [c \in Callers |-> Null]
    /\ fullChunk = [c \in Callers |-> Null]
    /\ result = [c \in Callers |-> NoResult]
    /\ nextUuid = 0
    /\ calls = 0
    /\ faults = 0
    /\ completed = <<>>
    /\ log = <<>>
    /\ snap = [c \in Callers |-> NoSnap]
    /\ rankArgs = NoArgs
    /\ rankResult = NotRanked
    /\ NotChunking
    /\ HandlersIdle

----------------------------------------------------------------------------
(* writeLock: one AsyncLock key, tasks run one at a time in arrival order *)

LockFreeBad == TRUE

LockFree == holder = 0

\* Position of a waiting task once the lock runs it.
CsPc(p) == IF p = "a_wait" THEN "a_write" ELSE "c_unlink"

\* writeLock.acquire by caller c, whose task starts at csPc when run
Acquire(c, csPc, waitPc) ==
    IF LockFree
    THEN /\ holder' = c
         /\ queue' = queue
         /\ pc' = [pc EXCEPT ![c] = csPc]
    ELSE /\ holder' = holder
         /\ queue' = Append(queue, c)
         /\ pc' = [pc EXCEPT ![c] = waitPc]

ReleaseBad(c, r) ==
    /\ result' = [result EXCEPT ![c] = r]
    /\ log' = Append(log, Entry(r))
    /\ holder' = IF r.status = "error" THEN holder
                 ELSE IF queue = <<>> THEN 0 ELSE Head(queue)
    /\ queue' = IF r.status = "error" \/ queue = <<>> THEN queue ELSE Tail(queue)
    /\ pc' = [d \in Callers |->
                IF d = c THEN "done"
                ELSE IF r.status # "error" /\ queue # <<>> /\ d = Head(queue)
                     THEN CsPc(pc[d])
                ELSE pc[d]]

\* The task of c settles with outcome r: the call is finished and the lock
\* runs the next queued task, if any.
Release(c, r) ==
    /\ result' = [result EXCEPT ![c] = r]
    /\ log' = Append(log, Entry(r))
    /\ holder' = IF queue = <<>> THEN 0 ELSE Head(queue)
    /\ queue' = IF queue = <<>> THEN <<>> ELSE Tail(queue)
    /\ pc' = [d \in Callers |->
                IF d = c THEN "done"
                ELSE IF queue # <<>> /\ d = Head(queue) THEN CsPc(pc[d])
                ELSE pc[d]]

\* fs.mkdir(DATA_DIR, { recursive: true }): whether the directory exists
\* afterwards
EnsureDirBad(fail) == dirExists

EnsureDir(fail) == dirExists \/ ~fail

Hit(c, fail) == [snap[c] EXCEPT !.faulted = @ \/ fail]

----------------------------------------------------------------------------
(* appendChunk *)

\* appendChunk(chunk) up to the hand-over of its write task to the lock:
\* ensureDataDir resolves (a failed mkdir is logged and swallowed), the id is
\* generated and the task is run or queued.
StartAppend(c, chunk) ==
    /\ UNCHANGED <<rankVars, chunkVars>>
    /\ pc[c] = "idle"
    /\ c = calls + 1
    /\ calls' = calls + 1
    /\ arg' = [arg EXCEPT ![c] = chunk]
    /\ \E fail \in FaultChoices :
          /\ dirExists' = EnsureDir(fail)
          /\ faults' = IF fail THEN faults + 1 ELSE faults
          /\ snap' = [snap EXCEPT ![c] = Hit(c, fail)]
    /\ nextUuid' = nextUuid + 1
    /\ fullChunk' = [fullChunk EXCEPT ![c] = FullChunk(chunk, uuidv4(nextUuid + 1))]
    /\ Acquire(c, "a_write", "a_wait")
    /\ UNCHANGED <<fileExists, file, result, completed, log>>

\* appendChunk called on its own, by no handler of the model
AppendEnsureDir(c, chunk) == StartAppend(c, chunk) /\ UNCHANGED handlerVars

\* The text of the file once frag is written at its end: a prefix of a line
\* followed by the rest of that line is the line.
Written(frag) ==
    IF frag.k = "suf" /\ file # <<>> /\ file[Len(file)] = Pre(frag.v)
    THEN Append(SubSeq(file, 1, Len(file) - 1), Line(frag.v))
    ELSE Append(file, frag)

AppendSucceeds(c, frag) ==
    /\ file' = Written(frag)
    /\ fileExists' = TRUE
    /\ completed' = Append(completed, [input |-> arg[c], stored |-> frag.v])
    /\ Release(c, Ok("append", <<>>, 0))

\* fs.appendFile inside the critical section: the line reaches the file in
\* one write or in two, or the call fails (the directory is missing, or a
\* storage fault) and appendChunk throws.
AppendFile(c) ==
    /\ UNCHANGED <<rankVars, chunkVars, handlerVars>>
    /\ pc[c] = "a_write"
    /\ \E fail \in FaultChoices, split \in BOOLEAN :
          LET line == Stringify(fullChunk[c]) IN
          /\ faults' = IF fail THEN faults + 1 ELSE faults
          /\ snap' = [snap EXCEPT ![c] = Hit(c, fail)]
          /\ IF fail \/ ~dirExists
             THEN /\ Release(c, Failed("append"))
                  /\ UNCHANGED <<fileExists, file, completed>>
             ELSE IF split
             THEN /\ file' = Written(Pre(line))
                  /\ fileExists' = TRUE
                  /\ pc' = [pc EXCEPT ![c] = "a_rest"]
                  /\ UNCHANGED <<holder, queue, result, completed, log>>
             ELSE AppendSucceeds(c, Line(line))
    /\ UNCHANGED <<dirExists, arg, fullChunk, nextUuid, calls>>

\* The second write of a line that took two.
AppendFileRest(c) ==
    /\ UNCHANGED <<rankVars, chunkVars, handlerVars>>
    /\ pc[c] = "a_rest"
    /\ AppendSucceeds(c, Suf(Stringify(fullChunk[c])))
    /\ UNCHANGED <<dirExists, arg, fullChunk, nextUuid, calls, faults, snap>>

----------------------------------------------------------------------------
(* loadAllChunks *)

\* loadAllChunks up to the read: ensureDataDir resolves.
StartLoad(c) ==
    /\ UNCHANGED <<rankVars, chunkVars>>
    /\ pc[c] = "idle"
    /\ c = calls + 1
    /\ calls' = calls + 1
    /\ \E fail \in FaultChoices :
          /\ dirExists' = EnsureDir(fail)
          /\ faults' = IF fail THEN faults + 1 ELSE faults
          /\ snap' = [snap EXCEPT ![c] = Hit(c, fail)]
    /\ pc' = [pc EXCEPT ![c] = "l_read"]
    /\ UNCHANGED <<fileExists, file, holder, queue, arg, fullChunk, result,
                   nextUuid, completed, log>>

\* loadAllChunks called on its own, by no handler of the model
LoadEnsureDir(c) == StartLoad(c) /\ UNCHANGED handlerVars

\* The outcome of fs.readFile and of the parse of what it returned: ENOENT
\* gives the empty list, any other failure is rethrown.
ReadOutcomeBad(fail) ==
    IF fail \/ ~fileExists THEN Failed("load")
    ELSE LET r == ParseFile(file) IN Ok("load", r.chunks, r.skipped)

ReadOutcome(fail) ==
    IF fail THEN Failed("load")
    ELSE IF ~fileExists THEN Ok("load", <<>>, 0)
    ELSE LET r == ParseFile(file) IN Ok("load", r.chunks, r.skipped)

LoadRead(c) ==
    /\ UNCHANGED <<rankVars, chunkVars, handlerVars>>
    /\ pc[c] = "l_read"
    /\ \E fail \in FaultChoices :
          /\ faults' = IF fail THEN faults + 1 ELSE faults
          /\ result' = [result EXCEPT ![c] = ReadOutcome(fail)]
          /\ log' = Append(log, Entry(ReadOutcome(fail)))
          /\ snap' = [snap EXCEPT ![c] =
                [completed |-> completed,
                 torn |-> \E d \in Callers : pc[d] = "a_rest",
                 absent |-> ~fileExists,
                 faulted |-> snap[c].faulted \/ fail]]
    /\ pc' = [pc EXCEPT ![c] = "done"]
    /\ UNCHANGED <<dirExists, fileExists, file, holder, queue, arg, fullChunk,
                   nextUuid, calls, completed>>

----------------------------------------------------------------------------
(* clearChunks *)

\* clearChunks hands its unlink task to the lock at once.
CallClear(c) ==
    /\ UNCHANGED <<rankVars, chunkVars, handlerVars>>
    /\ pc[c] = "idle"
    /\ c = calls + 1
    /\ calls' = calls + 1
    /\ Acquire(c, "c_unlink", "c_wait")
    /\ UNCHANGED <<dirExists, fileExists, file, arg, fullChunk, result, nextUuid,
                   faults, completed, log, snap>>

\* The outcome of fs.unlink as clearChunks reports it: ENOENT is swallowed.
UnlinkOutcomeBad(fail) ==
    IF fail \/ ~fileExists THEN Failed("clear") ELSE Ok("clear", <<>>, 0)

UnlinkOutcome(fail) ==
    IF fail THEN Failed("clear")
    ELSE IF ~fileExists THEN Ok("clear", <<>>, 0)
    ELSE Ok("clear", <<>>, 0)

\* fs.unlink inside the critical section
ClearUnlink(c) ==
    /\ UNCHANGED <<rankVars, chunkVars, handlerVars>>
    /\ pc[c] = "c_unlink"
    /\ \E fail \in FaultChoices :
          /\ faults' = IF fail THEN faults + 1 ELSE faults
          /\ fileExists' = (fileExists /\ fail)
          /\ file' = IF fail THEN file ELSE <<>>
          /\ completed' = IF fail THEN completed ELSE <<>>
          /\ snap' = [snap EXCEPT ![c] =
                [completed |-> <<>>, torn |-> FALSE, absent |-> ~fileExists,
                 faulted |-> fail]]
          /\ Release(c, UnlinkOutcome(fail))
    /\ UNCHANGED <<dirExists, arg, fullChunk, nextUuid, calls>>

----------------------------------------------------------------------------

Next ==
    \E c \in Callers :
        \/ \E chunk \in InputChunks : AppendEnsureDir(c, chunk)
        \/ AppendFile(c)
        \/ AppendFileRest(c)
        \/ LoadEnsureDir(c)
        \/ LoadRead(c)
        \/ CallClear(c)
        \/ ClearUnlink(c)

Spec == Init /\ [][Next]_vars

----------------------------------------------------------------------------
(* Claims about the chunk store *)

LoadOk(c) == result[c].op = "load" /\ result[c].status = "ok"

\* C1: at most one caller is inside a mutating critical section (the file
\* append of appendChunk or the unlink of clearChunks) at any moment, and it
\* is the caller the lock is held for.
MutualExclusion ==
    /\ Cardinality({c \in Callers : InCS(c)}) <= 1
    /\ \A c \in Callers : InCS(c) => holder = c

\* C1 witness: a mutation is inside its critical section while another
\* mutation waits for the lock.
MutualExclusionWitness ==
    \E c, d \in Callers : InCS(c) /\ pc[d] \in {"a_wait", "c_wait"}

\* A record as the data model has it: an object with a non-empty id, doc and
\* text and an array for its embedding.
NonEmptyString(v, f) == f \in DOMAIN v.o /\ v.o[f].t = "str" /\ v.o[f].s # <<>>

WellFormedRecord(v) ==
    /\ v.t = "obj"
    /\ NonEmptyString(v, "id")
    /\ NonEmptyString(v, "doc")
    /\ NonEmptyString(v, "text")
    /\ "embedding" \in DOMAIN v.o /\ v.o["embedding"].t = "arr"

StoredOf(hist) == [j \in DOMAIN hist |-> hist[j].stored]

\* C2: a loadAllChunks that reads the file while an append is half written
\* does not fail because of it and returns exactly the well-formed records
\* whose append had completed: each record whole or not at all.
TornReadSafe ==
    \A c \in Callers :
        result[c].op = "load" =>
            /\ result[c].status = "error" => snap[c].faulted
            /\ result[c].status = "ok" =>
                 result[c].chunks = SelectSeq(StoredOf(snap[c].completed), WellFormedRecord)

\* C2 witness: a load that read the file while an append was half written
\* returned the record appended before and skipped the partial line.
TornReadWitness ==
    \E c \in Callers :
        LoadOk(c) /\ snap[c].torn /\ Len(result[c].chunks) = 1 /\ result[c].skipped = 1

\* r equals the chunk handed to appendChunk in every field except id
EqualExceptId(r, input) ==
    /\ r.t = "obj"
    /\ DOMAIN r.o \ {"id"} = DOMAIN input.o \ {"id"}
    /\ \A f \in DOMAIN input.o \ {"id"} : r.o[f] = input.o[f]

\* C3: every chunk whose append completed before the read, with no clear in
\* between, is returned by loadAllChunks equal in every field except id.
RoundTrip ==
    \A c \in Callers :
        LoadOk(c) =>
            \A j \in DOMAIN snap[c].completed :
                \E i \in DOMAIN result[c].chunks :
                    EqualExceptId(result[c].chunks[i], snap[c].completed[j].input)

ClearOk == [op |-> "clear", status |-> "ok"]
AppendOk == [op |-> "append", status |-> "ok"]
LoadOkEntry == [op |-> "load", status |-> "ok"]

ClearStep(c) == pc[c] = "c_unlink" /\ pc'[c] = "done"
AppendDoneStep(c) ==
    pc[c] \in {"a_write", "a_rest"} /\ pc'[c] = "done" /\ result'[c].status = "ok"

\* C5: a clearChunks that succeeds leaves no file; on a store that is
\* already empty it succeeds (unless a storage fault hits it) and leaves the
\* store empty; a load that reads after a clear, with no append completed
\* since, returns the empty sequence.
ClearIdempotent ==
    /\ [][\A c \in Callers :
            ClearStep(c) =>
                /\ result'[c].status = "ok" => ~fileExists' /\ file' = <<>>
                /\ (~fileExists /\ faults' = faults) =>
                        result'[c].status = "ok" /\ ~fileExists' /\ file' = <<>>]_vars
    /\ [](\A c \in Callers :
            (LoadOk(c) /\ snap[c].completed = <<>>) => result[c].chunks = <<>>)

\* C5 witness: after an append, a first clear emptied the store and a second
\* clear found it empty and succeeded.
ClearIdempotentWitness ==
    \E c \in Callers :
        /\ result[c] = Ok("clear", <<>>, 0)
        /\ snap[c].absent
        /\ log = <<AppendOk, ClearOk, ClearOk>>

\* C6: appendChunk and loadAllChunks fail only when a storage fault hits
\* them, never because the directory or the file did not exist: a load that
\* finds no file returns the empty sequence, and an append that succeeds
\* leaves the file in place with its record as the last line.
LazyCreation ==
    /\ [](\A c \in Callers :
            /\ (result[c].op \in {"append", "load"} /\ result[c].status = "error")
                    => snap[c].faulted
            /\ (LoadOk(c) /\ snap[c].absent) => result[c].chunks = <<>>)
    /\ [][\A c \in Callers :
            AppendDoneStep(c) =>
                /\ fileExists'
                /\ LET ls == SplitLines(file', <<>>) IN
                     /\ ls # <<>>
                     /\ ParseOk(ls[Len(ls)])
                     /\ ParseValue(ls[Len(ls)]) = Stringify(fullChunk[c])]_vars

\* C6 witness: with no fault, a load of the uninitialized store, a clear and
\* then an append have all succeeded.
LazyCreationWitness ==
    /\ faults = 0
    /\ log = <<LoadOkEntry, ClearOk, AppendOk>>
    /\ fileExists

\* C7: no two records returned by loadAllChunks share an id.
UniqueIds ==
    \A c \in Callers :
        LoadOk(c) =>
            \A i, j \in DOMAIN result[c].chunks :
                i # j => result[c].chunks[i].o["id"] # result[c].chunks[j].o["id"]

\* C8: an append that completes changes the result of loadAllChunks by
\* exactly one record added at the end, and only a clear removes records.
AppendOnly ==
    [][LET before == ParseFile(file).chunks
           after == ParseFile(file').chunks
       IN  /\ \A c \in Callers :
                 AppendDoneStep(c) => after = Append(before, Stringify(fullChunk[c]))
           /\ after # before =>
                 \E c \in Callers : AppendDoneStep(c) \/ ClearStep(c)]_vars

----------------------------------------------------------------------------
(* loadAllChunks over chunk files with arbitrary lines *)

RecordA == Stringify(FullChunk(ChunkA, uuidv4(1)))
RecordX == Stringify(FullChunk(ChunkWithId, uuidv4(2)))
RecordEmptyText == Stringify(FullChunk(ChunkEmptyText, uuidv4(3)))
RecordNoText ==
    Obj([id |-> Str(<<"u4">>), doc |-> Str(<<"a.txt">>),
         embedding |-> Arr(<<Num(3), Num(4)>>)])
RecordBadEmbedding ==
    Obj([id |-> Str(<<"u5">>), doc |-> Str(<<"a.txt">>), text |-> Str(<<"cat">>),
         embedding |-> Str(<<"none">>)])

\* The fragments a chunk file is made of: records, JSON that is no record,
\* text that is no JSON, blank lines and a line cut short.
FileFragments ==
    {Line(RecordA), Line(RecordX), Line(RecordEmptyText), Line(RecordNoText),
     Line(RecordBadEmbedding), Line(Null), Garbage, Blank, Pre(RecordA)}

Files == UNION {[1..n -> FileFragments] : n \in 0..MaxLines}

InitLoad ==
    /\ dirExists = TRUE
    /\ fileExists = TRUE
    /\ file \in Files
    /\ holder = 0
    /\ queue = <<>>
    /\ pc = [c \in Callers |-> "idle"]
    /\ arg = [c \in Callers |-> Null]
    /\ fullChunk = [c \in Callers |-> Null]
    /\ result = [c \in Callers |-> NoResult]
    /\ nextUuid = 0
    /\ calls = 0
    /\ faults = 0
    /\ completed = <<>>
    /\ log = <<>>
    /\ snap = [c \in Callers |-> NoSnap]
    /\ rankArgs = NoArgs
    /\ rankResult = NotRanked
    /\ NotChunking
    /\ HandlersIdle

\* One call of loadAllChunks on the file.
NextLoad == LoadEnsureDir(1) \/ LoadRead(1)

SpecLoad == InitLoad /\ [][NextLoad]_vars

IsWellFormedLine(line) ==
    Len(line) = 1 /\ line[1].k = "line" /\ WellFormedRecord(line[1].v)

\* C4: whatever the lines of the file, loadAllChunks fails only on a storage
\* fault, returns exactly the well-formed records in file order, and counts
\* as skipped exactly the other non-blank lines.
CorruptionTolerance ==
    \A c \in Callers :
        result[c].op = "load" =>
            /\ result[c].status = "error" => snap[c].faulted
            /\ result[c].status = "ok" =>
                 LET lines == NonBlankLines(file)
                     good == SelectSeq(lines, IsWellFormedLine)
                 IN  /\ result[c].chunks = [i \in DOMAIN good |-> good[i][1].v]
                     /\ result[c].skipped = Len(lines) - Len(good)

\* C4 witness: a file with a line of garbage between two well-formed records
\* was loaded: both records came back, in order, and one line was skipped.
CorruptionToleranceWitness ==
    \E c \in Callers :
        /\ LoadOk(c)
        /\ file = <<Line(RecordA), Garbage, Line(RecordX)>>
        /\ result[c].chunks = <<RecordA, RecordX>>
        /\ result[c].skipped = 1

----------------------------------------------------------------------------
(* Numbers of vector-math.ts, in fixed point: an embedding component counts  *)
(* in units of 1/Scale, a score in units of 1/(100 * Scale * Scale), so that *)
(* dot products and the weighted sum are exact.                              *)

Scale == 2000
One == 400000000
EPSILON == 400

Abs(x) == IF x < 0 THEN -x ELSE x
Min(a, b) == IF a < b THEN a ELSE b
Max(a, b) == IF a > b THEN a ELSE b

floatEqual(a, b) == Abs(a - b) < EPSILON

RECURSIVE DotProduct(_, _)
DotProduct(v1, v2) ==
    IF v1 = <<>> THEN 0
    ELSE 100 * Head(v1) * Head(v2) + DotProduct(Tail(v1), Tail(v2))

SameDimensionsBad(v1, v2) == Len(v1) <= Len(v2)
SameDimensions(v1, v2) == Len(v1) = Len(v2)

\* cosineSimilarity, for vectors of the same dimensions
cosineSimilarity(v1, v2) == Max(0, Min(One, DotProduct(v1, v2)))

\* The tokens of a string: words, white space and punctuation.
IsSpace(tok) == tok = " "
IsWord(tok) == tok \notin {" ", ".", "?"}
toLowerCase(tok) ==
    CASE tok = "The" -> "the"
      [] tok = "Where" -> "where"
      [] tok = "Stock" -> "stock"
      [] OTHER -> tok

TrimmedEmptyBad(text) == text = <<>>
\* text.trim().length === 0
TrimmedEmpty(text) == \A i \in DOMAIN text : IsSpace(text[i])

extractWords(text) == {toLowerCase(text[i]) : i \in {j \in DOMAIN text : IsWord(text[j])}}

keywordScore(queryWords, textWords) ==
    IF Cardinality(queryWords) = 0 THEN 0
    ELSE (Cardinality(queryWords \cap textWords) * One) \div Cardinality(queryWords)

\* The weights of hybridScore, in percent
SemanticWeight(wordCount) ==
    IF wordCount > 0 /\ wordCount < 5 THEN 60
    ELSE IF wordCount > 0 /\ wordCount < 15 THEN 75
    ELSE 80

KeywordWeight(wordCount) ==
    IF wordCount > 0 /\ wordCount < 5 THEN 40
    ELSE IF wordCount > 0 /\ wordCount < 15 THEN 25
    ELSE 20

hybridScore(semanticScore, kwScore, queryWords) ==
    LET wordCount == Cardinality(queryWords)
    IN  SemanticWeight(wordCount) * (semanticScore \div 100)
          + KeywordWeight(wordCount) * (kwScore \div 100)

scoreChunk(query, queryEmbedding, chunkText, chunkEmbedding) ==
    LET queryWords == extractWords(query)
        chunkWords == extractWords(chunkText)
        semantic == cosineSimilarity(queryEmbedding, chunkEmbedding)
        keyword == keywordScore(queryWords, chunkWords)
    IN  [semantic |-> semantic, keyword |-> keyword,
         hybrid |-> hybridScore(semantic, keyword, queryWords)]

\* The comparator handed to ranked.sort: negative when a goes first
Compare(a, b) ==
    IF ~floatEqual(a.hybrid, b.hybrid) THEN b.hybrid - a.hybrid
    ELSE IF ~floatEqual(a.semantic, b.semantic) THEN b.semantic - a.semantic
    ELSE a.index - b.index

(* ranked.sort(compare) as Node's engine runs it on an array shorter than 64: *)
(* the leading run is found (and reversed when it descends), then every      *)
(* later element is put in place by binary insertion.                       *)

\* Length of the run that starts the array: a[2] against a[1] decides its
\* direction, and it ends where the direction changes.
RECURSIVE RunEnd(_, _, _)
RunEnd(a, descending, idx) ==
    IF idx > Len(a) THEN Len(a)
    ELSE LET order == Compare(a[idx], a[idx - 1])
         IN  IF (descending /\ order >= 0) \/ (~descending /\ order < 0)
             THEN idx - 1
             ELSE RunEnd(a, descending, idx + 1)

Reverse(a) == [i \in DOMAIN a |-> a[Len(a) + 1 - i]]

\* Where the pivot goes among a[left+1 .. right]
RECURSIVE BinarySearch(_, _, _, _)
BinarySearch(a, pivot, left, right) ==
    IF left >= right THEN left
    ELSE LET mid == left + ((right - left) \div 2)
         IN  IF Compare(pivot, a[mid + 1]) < 0
             THEN BinarySearch(a, pivot, left, mid)
             ELSE BinarySearch(a, pivot, mid + 1, right)

RECURSIVE BinaryInsertionSort(_, _)
BinaryInsertionSort(a, start) ==
    IF start > Len(a) THEN a
    ELSE LET pivot == a[start]
             left == BinarySearch(a, pivot, 0, start - 1)
             moved == [i \in DOMAIN a |->
                         IF i <= left \/ i > start THEN a[i]
                         ELSE IF i = left + 1 THEN pivot
                         ELSE a[i - 1]]
         IN  BinaryInsertionSort(moved, start + 1)

Sort(a) ==
    IF Len(a) < 2 THEN a
    ELSE LET descending == Compare(a[2], a[1]) < 0
             run == RunEnd(a, descending, 3)
             made == IF descending
                     THEN Reverse(SubSeq(a, 1, run)) \o SubSeq(a, run + 1, Len(a))
                     ELSE a
         IN  BinaryInsertionSort(made, run + 1)

SliceBad(a, topK) == a
\* array.slice(0, topK), topK >= 0
Slice(a, topK) == SubSeq(a, 1, Min(topK, Len(a)))

\* chunks.map((chunk, index) => ...): the candidates with their scores
Scored(query, queryEmbedding, chunks) ==
    [i \in DOMAIN chunks |->
        LET scores == scoreChunk(query, queryEmbedding, chunks[i].text,
                                 chunks[i].embedding)
        IN  [id |-> chunks[i].id, doc |-> chunks[i].doc, text |-> chunks[i].text,
             embedding |-> chunks[i].embedding, semantic |-> scores.semantic,
             keyword |-> scores.keyword, hybrid |-> scores.hybrid, index |-> i - 1]]

rankChunks(query, queryEmbedding, chunks, topK) ==
    IF chunks = <<>> THEN [status |-> "ok", ranked |-> <<>>]
    ELSE IF TrimmedEmpty(query)
    THEN [status |-> "ok", ranked |-> Slice(chunks, topK)]
    ELSE IF \E i \in DOMAIN chunks : ~SameDimensions(queryEmbedding, chunks[i].embedding)
    THEN [status |-> "error", ranked |-> <<>>]
    ELSE [status |-> "ok",
          ranked |-> Slice(Sort(Scored(query, queryEmbedding, chunks)), topK)]

----------------------------------------------------------------------------
(* rankChunks over bounded candidate lists *)

Words(ws) == [i \in 1..(2 * Len(ws) - 1) |-> IF i % 2 = 1 THEN ws[(i + 1) \div 2] ELSE " "]

Queries ==
    { <<>>, <<" ">>, <<"?">>, <<"cat">>,
      Words(<<"Where", "did", "the", "cat", "sit">>) \o <<"?">>,
      Words(<<"the", "cat", "and", "the", "mat">>),
      Words(<<"w1", "w2", "w3", "w4", "w5", "w6", "w7", "w8", "w9", "w10",
              "w11", "w12", "w13", "cat", "mat">>) }

QueryEmbedding == <<2000, 3>>

CatText == Words(<<"The", "cat", "sat", "on", "the", "mat">>) \o <<".">>
StockText == Words(<<"Stock", "prices", "rose", "sharply", "today">>) \o <<".">>

\* Candidates as the store holds them, less their ids: three texts about the
\* cat whose embeddings are within a millionth of each other, one unrelated
\* text, and two embeddings of another dimension (one shorter, one longer).
CandidateKinds ==
    { [doc |-> <<"a.txt">>, text |-> CatText, embedding |-> <<1999, 60>>],
      [doc |-> <<"a.txt">>, text |-> CatText, embedding |-> <<1999, 61>>],
      [doc |-> <<"a.txt">>, text |-> CatText, embedding |-> <<1999, 62>>],
      [doc |-> <<"b.txt">>, text |-> StockText, embedding |-> <<60, 1999>>],
      [doc |-> <<"b.txt">>, text |-> StockText, embedding |-> <<2000>>],
      [doc |-> <<"b.txt">>, text |-> StockText, embedding |-> <<2000, 3, 7>>] }

WithIds(kinds) ==
    [i \in DOMAIN kinds |->
        [id |-> Uuids[i], doc |-> kinds[i].doc, text |-> kinds[i].text,
         embedding |-> kinds[i].embedding]]

CandidateLists ==
    {WithIds(kinds) : kinds \in UNION {[1..n -> CandidateKinds] : n \in 0..MaxCandidates}}

InitRank ==
    /\ dirExists = FALSE
    /\ fileExists = FALSE
    /\ file = <<>>
    /\ holder = 0
    /\ queue = <<>>
    /\ pc = [c \in Callers |-> "idle"]
    /\ arg = [c \in Callers |-> Null]
    /\ fullChunk = [c \in Callers |-> Null]
    /\ result = [c \in Callers |-> NoResult]
    /\ nextUuid = 0
    /\ calls = 0
    /\ faults = 0
    /\ completed = <<>>
    /\ log = <<>>
    /\ snap = [c \in Callers |-> NoSnap]
    /\ rankArgs \in [query : Queries, queryEmbedding : {QueryEmbedding},
                     chunks : CandidateLists, topK : 0..MaxTopK]
    /\ rankResult = NotRanked
    /\ NotChunking
    /\ HandlersIdle

Rank ==
    /\ rankResult.status = "none"
    /\ rankResult' = rankChunks(rankArgs.query, rankArgs.queryEmbedding,
                                rankArgs.chunks, rankArgs.topK)
    /\ UNCHANGED <<storeVars, rankArgs, chunkVars, handlerVars>>

NextRank == Rank

SpecRank == InitRank /\ [][NextRank]_vars

\* The candidates of the call with their scores, when the call scores them
Candidates ==
    IF TrimmedEmpty(rankArgs.query)
         \/ \E i \in DOMAIN rankArgs.chunks :
               ~SameDimensions(rankArgs.queryEmbedding, rankArgs.chunks[i].embedding)
    THEN <<>>
    ELSE Scored(rankArgs.query, rankArgs.queryEmbedding, rankArgs.chunks)

Before(a, b) == Compare(a, b) < 0

\* C10: the comparator of rankChunks is a strict total order on the scored
\* candidates of every call: for every pair exactly one goes before the
\* other, and going before is transitive over every triple.
ComparatorTotalOrder ==
    rankResult.status = "ok" =>
        LET cs == Candidates IN
        \A i, j, k \in DOMAIN cs :
            /\ ~Before(cs[i], cs[i])
            /\ i # j => (Before(cs[i], cs[j]) <=> ~Before(cs[j], cs[i]))
            /\ (Before(cs[i], cs[j]) /\ Before(cs[j], cs[k])) => Before(cs[i], cs[k])

----------------------------------------------------------------------------
(* The order of the output of rankChunks *)

\* The candidate of input position i (from 1) is in the output, before the
\* output position q
IsBefore(out, i, q) == \E p \in 1..(q - 1) : out[p].index = i - 1

\* Whenever the candidate of input position j is in the output, the one of
\* position i is there before it
PlacedBefore(out, i, j) ==
    \A q \in DOMAIN out : out[q].index = j - 1 => IsBefore(out, i, q)

Scoring == rankResult.status = "ok" /\ ~TrimmedEmpty(rankArgs.query)

\* C11: for a non-empty query, a candidate whose hybrid score is higher than
\* another's by 1e-6 or more is placed before it in the output, and is in
\* the returned top-K whenever the other is.
HybridDescending ==
    Scoring =>
        LET cs == Candidates IN
        \A i, j \in DOMAIN cs :
            cs[i].hybrid - cs[j].hybrid >= EPSILON
                => PlacedBefore(rankResult.ranked, i, j)

\* C12: in the output, of two candidates whose hybrid scores are within 1e-6
\* the one with the higher semantic score comes first, and when the semantic
\* scores are within 1e-6 too, the one earlier in the input comes first.
TieBreakOrder ==
    Scoring =>
        LET cs == Candidates
            out == rankResult.ranked
            BothBefore(i, j) == \A q \in DOMAIN out :
                out[q].index = j - 1 =>
                    (\A p \in DOMAIN out : out[p].index = i - 1 => p < q)
        IN  \A i, j \in DOMAIN cs :
              floatEqual(cs[i].hybrid, cs[j].hybrid) =>
                /\ cs[i].semantic - cs[j].semantic >= EPSILON => BothBefore(i, j)
                /\ (floatEqual(cs[i].semantic, cs[j].semantic) /\ i < j)
                      => BothBefore(i, j)

----------------------------------------------------------------------------
(* The length of the output, the empty query and the dimension mismatch *)

Returned == rankResult.status # "none"
NumCandidates == Len(rankArgs.chunks)
BlankQuery == \A i \in DOMAIN rankArgs.query : rankArgs.query[i] = " "
Mismatched ==
    \E i \in DOMAIN rankArgs.chunks :
        Len(rankArgs.chunks[i].embedding) # Len(rankArgs.queryEmbedding)

\* C13: when rankChunks returns, it returns exactly min(topK, n) of the n
\* candidates, so at most topK; for the empty candidate list it returns the
\* empty sequence and never an error.
TopKLength ==
    /\ rankResult.status = "ok" =>
          Len(rankResult.ranked) =
              IF rankArgs.topK < NumCandidates THEN rankArgs.topK ELSE NumCandidates
    /\ (Returned /\ NumCandidates = 0) =>
          (rankResult.status = "ok" /\ rankResult.ranked = <<>>)

TopKLengthWitness ==
    /\ rankResult.status = "ok"
    /\ ~BlankQuery
    /\ NumCandidates = 3
    /\ rankArgs.topK = 2
    /\ Len(rankResult.ranked) = 2

\* C14: for an empty or whitespace-only query and a non-empty candidate list,
\* rankChunks returns the first topK candidates in input order, as they came
\* in (no score computed), and raises no error whatever the embeddings are.
EmptyQueryPassThrough ==
    (Returned /\ BlankQuery /\ NumCandidates > 0) =>
        /\ rankResult.status = "ok"
        /\ rankResult.ranked =
              [i \in 1..(IF rankArgs.topK < NumCandidates
                         THEN rankArgs.topK ELSE NumCandidates) |-> rankArgs.chunks[i]]

EmptyQueryPassThroughWitness ==
    /\ rankResult.status = "ok"
    /\ rankArgs.query = <<" ">>
    /\ NumCandidates = 3
    /\ Mismatched
    /\ rankArgs.topK = 2
    /\ rankResult.ranked = <<rankArgs.chunks[1], rankArgs.chunks[2]>>

\* C16: for a non-empty query, rankChunks over a candidate list that holds an
\* embedding of another length than the query embedding fails with the
\* dimension error and yields no scored chunk.
DimensionMismatchFails ==
    (Returned /\ ~BlankQuery /\ Mismatched) =>
        (rankResult.status = "error" /\ rankResult.ranked = <<>>)

DimensionMismatchWitness ==
    /\ rankResult.status = "error"
    /\ rankArgs.query = <<"cat">>
    /\ NumCandidates = 2
    /\ Len(rankArgs.chunks[1].embedding) = 2
    /\ Len(rankArgs.chunks[2].embedding) = 3

----------------------------------------------------------------------------
(* The weights of the hybrid score *)

\* The number of word tokens of the query
WordTokens == Cardinality({i \in DOMAIN rankArgs.query : IsWord(rankArgs.query[i])})

\* C15: with n the number of word tokens of the query, the hybrid score of
\* every scored candidate is w_s * semantic + w_k * keyword, with (w_s, w_k) =
\* (60%, 40%) when 0 < n < 5, (75%, 25%) when 5 <= n < 15, and (80%, 20%)
\* when n >= 15 or n = 0; the weights sum to 100%.
HybridWeights ==
    Scoring =>
        LET n == WordTokens
            ws == IF 0 < n /\ n < 5 THEN 60 ELSE IF 5 <= n /\ n < 15 THEN 75 ELSE 80
            wk == 100 - ws
            out == rankResult.ranked
        IN  \A p \in DOMAIN out :
                out[p].hybrid = ws * (out[p].semantic \div 100)
                                  + wk * (out[p].keyword \div 100)

----------------------------------------------------------------------------
(* chunkText (app/layout.tsx)                                               *)
(* A string is the sequence of its characters. A character is a number: its *)
(* last digit is its class (0 white space, 1 upper-case letter, 2 any other *)
(* character of a word, 3 one of . ! ?), the rest is the number of the      *)
(* sentence of the input it was written in (0 for the space between two).   *)

MinChunkLength == 100

IsWhite(ch) == ch % 10 = 0
IsUpper(ch) == ch % 10 = 1
IsTerminator(ch) == ch % 10 = 3
Space == 0

IsBlank(str) == \A i \in DOMAIN str : IsWhite(str[i])

\* str.trim()
Trim(str) ==
    IF IsBlank(str) THEN <<>>
    ELSE LET n == Len(str)
             first == CHOOSE i \in 1..n :
                          ~IsWhite(str[i]) /\ \A j \in 1..(i - 1) : IsWhite(str[j])
             cut == CHOOSE k \in 0..(n - 1) :
                        ~IsWhite(str[n - k]) /\ \A j \in (n - k + 1)..n : IsWhite(str[j])
         IN  SubSeq(str, first, n - cut)

\* The first position from q on that holds no white space, Len(str) + 1 if none
SkipWhite(str, q) ==
    IF \A i \in q..Len(str) : IsWhite(str[i]) THEN Len(str) + 1
    ELSE CHOOSE i \in q..Len(str) :
             ~IsWhite(str[i]) /\ \A j \in q..(i - 1) : IsWhite(str[j])

\* sentenceRegex tried at position q: the position after the match, 0 when
\* it does not match.  /(?<=[.!?])\s+(?=[A-Z])|(?<=[.!?])\s*$/
MatchEnd(str, q) ==
    IF q = 1 \/ ~IsTerminator(str[q - 1]) THEN 0
    ELSE LET r == SkipWhite(str, q)
         IN  IF r > q /\ r <= Len(str) /\ IsUpper(str[r]) THEN r
             ELSE IF r = Len(str) + 1 THEN r
             ELSE 0

\* str.split(sentenceRegex) from position p on: the search runs from p to the
\* first position where the regex matches, the piece ends there, and the
\* next piece starts after the match
RECURSIVE SplitFrom(_, _)
SplitFrom(str, p) ==
    IF \A q \in p..Len(str) : MatchEnd(str, q) = 0
    THEN <<SubSeq(str, p, Len(str))>>
    ELSE LET q == CHOOSE i \in p..Len(str) :
                      MatchEnd(str, i) # 0 /\ \A j \in p..(i - 1) : MatchEnd(str, j) = 0
         IN  <<SubSeq(str, p, q - 1)>> \o SplitFrom(str, MatchEnd(str, q))

IsInked(str) == ~IsBlank(str)

\* text.split(sentenceRegex).filter((s) => s.trim())
SplitSentences(str) == SelectSeq(SplitFrom(str, 1), IsInked)

\* Math.floor(length * (overlapPercent / 100))
OverlapLength(length, percent) == (length * percent) \div 100

\* str.slice(-n) for n >= 0: slice(-0) is slice(0), the whole string
SliceLast(str, n) ==
    IF n = 0 THEN str
    ELSE SubSeq(str, Max(1, Len(str) - n + 1), Len(str))

\* currentChunk + (currentChunk ? ' ' : '') + sentence
TestChunk(current, sentence) ==
    current \o (IF current # <<>> THEN <<Space>> ELSE <<>>) \o sentence

ChunkStart ==
    /\ ctPc = "start"
    /\ LET found == SplitSentences(ctArgs.text)
       IN  IF IsBlank(ctArgs.text) \/ found = <<>>
           THEN /\ ctPc' = "done"
                /\ sentences' = <<>>
           ELSE /\ ctPc' = "loop"
                /\ sentences' = found
    /\ UNCHANGED <<storeVars, rankVars, handlerVars, ctArgs, currentChunk, previousChunk,
                   ctChunks, closings>>

\* One turn of the loop over the sentences
ChunkSentence ==
    /\ ctPc = "loop"
    /\ sentences # <<>>
    /\ LET sentence == Head(sentences)
           testChunk == TestChunk(currentChunk, sentence)
       IN  IF Len(testChunk) > ctArgs.targetChunkSize /\ Len(currentChunk) > 0
           THEN IF Len(Trim(currentChunk)) > MinChunkLength
                THEN LET overlapLength ==
                             OverlapLength(Len(currentChunk), ctArgs.overlapPercent)
                         next == SliceLast(currentChunk, overlapLength)
                                    \o <<Space>> \o sentence
                     IN  /\ ctChunks' = Append(ctChunks, currentChunk)
                         /\ previousChunk' = currentChunk
                         /\ currentChunk' = next
                         /\ closings' = Append(closings,
                               [closed |-> currentChunk, sentence |-> sentence,
                                next |-> next])
                ELSE /\ currentChunk' = testChunk
                     /\ UNCHANGED <<ctChunks, previousChunk, closings>>
           ELSE /\ currentChunk' = testChunk
                /\ UNCHANGED <<ctChunks, previousChunk, closings>>
    /\ sentences' = Tail(sentences)
    /\ UNCHANGED <<storeVars, rankVars, handlerVars, ctArgs, ctPc>>

FallbackBad(emitted, str) == emitted

\* if (chunks.length === 0 && text.trim().length > 100) chunks.push(text)
Fallback(emitted, str) ==
    IF emitted = <<>> /\ Len(Trim(str)) > MinChunkLength THEN <<str>> ELSE emitted

\* After the loop: the last buffer, the fallback, the return
ChunkFinish ==
    /\ ctPc = "loop"
    /\ sentences = <<>>
    /\ LET withLast == IF Len(Trim(currentChunk)) > MinChunkLength
                       THEN Append(ctChunks, currentChunk)
                       ELSE ctChunks
       IN  ctChunks' = Fallback(withLast, ctArgs.text)
    /\ ctPc' = "done"
    /\ UNCHANGED <<storeVars, rankVars, handlerVars, ctArgs, sentences, currentChunk,
                   previousChunk, closings>>

(* chunkText over bounded texts *)

\* The sentences a text is written from: length, whether the first character
\* is an upper-case letter, whether the last is one of . ! ?
SentenceShapes ==
    { [len |-> 30, upper |-> TRUE, term |-> TRUE],
      [len |-> 60, upper |-> TRUE, term |-> TRUE],
      [len |-> 60, upper |-> FALSE, term |-> TRUE],
      [len |-> 30, upper |-> TRUE, term |-> FALSE] }

SentenceText(k, shape) ==
    [i \in 1..shape.len |->
        10 * k + (IF i = 1 /\ shape.upper THEN 1
                  ELSE IF i = shape.len /\ shape.term THEN 3
                  ELSE 2)]

\* The sentences written one after the other, gap spaces between two
RECURSIVE Joined(_, _, _)
Joined(shapes, k, gap) ==
    IF k > Len(shapes) THEN <<>>
    ELSE (IF k > 1 THEN [i \in 1..gap |-> Space] ELSE <<>>)
            \o SentenceText(k, shapes[k]) \o Joined(shapes, k + 1, gap)

\* How a text is laid out: the spaces between two sentences and at the end
Layouts == { [gap |-> 1, pad |-> 0], [gap |-> 45, pad |-> 0], [gap |-> 1, pad |-> 80] }

\* Texts of up to MaxSentences sentences
Texts ==
    { Joined(shapes, 1, lay.gap) \o [i \in 1..lay.pad |-> Space] :
        shapes \in UNION {[1..n -> SentenceShapes] : n \in 0..MaxSentences},
        lay \in Layouts }

InitChunk ==
    /\ dirExists = FALSE
    /\ fileExists = FALSE
    /\ file = <<>>
    /\ holder = 0
    /\ queue = <<>>
    /\ pc = [c \in Callers |-> "idle"]
    /\ arg = [c \in Callers |-> Null]
    /\ fullChunk = [c \in Callers |-> Null]
    /\ result = [c \in Callers |-> NoResult]
    /\ nextUuid = 0
    /\ calls = 0
    /\ faults = 0
    /\ completed = <<>>
    /\ log = <<>>
    /\ snap = [c \in Callers |-> NoSnap]
    /\ rankArgs = NoArgs
    /\ rankResult = NotRanked
    /\ ctArgs \in [text : Texts, targetChunkSize : {50, 150},
                   overlapPercent : {0, 30, 100}]
    /\ ctPc = "start"
    /\ sentences = <<>>
    /\ currentChunk = <<>>
    /\ previousChunk = <<>>
    /\ ctChunks = <<>>
    /\ closings = <<>>
    /\ HandlersIdle

NextChunk == ChunkStart \/ ChunkSentence \/ ChunkFinish

SpecChunk == InitChunk /\ [][NextChunk]_vars

----------------------------------------------------------------------------
(* The chunks of chunkText *)

Chunked == ctPc = "done"
LongText == Len(ctArgs.text) > 100
InputSentences == SplitSentences(ctArgs.text)
LongestSentence ==
    LET lens == {Len(InputSentences[i]) : i \in DOMAIN InputSentences}
    IN  IF lens = {} THEN 0 ELSE CHOOSE l \in lens : \A m \in lens : m <= l

\* C17: for a text of more than 100 characters, every chunk chunkText emits
\* is longer than 100 characters and no longer than targetSize plus the
\* longest sentence of the text, whatever targetSize and overlapPercent.
ChunkBounds ==
    (Chunked /\ LongText) =>
        \A k \in DOMAIN ctChunks :
            /\ Len(ctChunks[k]) > 100
            /\ Len(ctChunks[k]) <= ctArgs.targetChunkSize + LongestSentence

\* str holds sub as one piece
Holds(str, sub) ==
    \E off \in 0..(Len(str) - Len(sub)) : SubSeq(str, off + 1, off + Len(sub)) = sub

\* The first chunk that holds the sentence, 0 when none does
FirstChunkOf(sentence) ==
    LET holding == {k \in DOMAIN ctChunks : Holds(ctChunks[k], sentence)}
    IN  IF holding = {} THEN 0 ELSE CHOOSE k \in holding : \A m \in holding : k <= m

\* C18: for a text of more than 100 characters no sentence is lost: every
\* sentence of the text is in the emitted chunks, in the order of the text.
NoSentenceLost ==
    (Chunked /\ LongText) =>
        LET ss == InputSentences IN
        /\ \A i \in DOMAIN ss : FirstChunkOf(ss[i]) # 0
        /\ \A i, j \in DOMAIN ss : i < j => FirstChunkOf(ss[i]) <= FirstChunkOf(ss[j])

\* The last n characters of str, none for n = 0
Trailing(str, n) == SubSeq(str, Len(str) - n + 1, Len(str))

\* C19: when chunkText closes a chunk of length L, the next chunk starts
\* with exactly the last floor(L * overlapPercent / 100) characters of the
\* closed chunk, followed (after the joining space) by the new sentence; with
\* overlapPercent = 0 it carries nothing of the closed chunk.
OverlapExact ==
    \A k \in DOMAIN closings :
        LET c == closings[k]
            L == Len(c.closed)
        IN  c.next = Trailing(c.closed, (L * ctArgs.overlapPercent) \div 100)
                        \o <<Space>> \o c.sentence

\* C20: chunkText returns no chunk exactly when the trimmed text has at most
\* 100 characters: none for an empty or blank text, at least one (the whole
\* text when the loop emitted none) when the trimmed text is longer.
InkedLength ==
    LET str == ctArgs.text
        n == Len(str)
    IN  IF \A i \in 1..n : str[i] % 10 = 0 THEN 0
        ELSE LET lead == CHOOSE k \in 0..(n - 1) :
                             (\A j \in 1..k : str[j] % 10 = 0) /\ str[k + 1] % 10 # 0
                 tail == CHOOSE k \in 0..(n - 1) :
                             (\A j \in (n - k + 1)..n : str[j] % 10 = 0)
                                /\ str[n - k] % 10 # 0
             IN  n - lead - tail

EmptyExactly ==
    Chunked => (ctChunks = <<>> <=> InkedLength <= 100)

\* No chunk from the loop, the whole text returned
EmptyExactlyWitness ==
    /\ Chunked
    /\ InkedLength > 100
    /\ Len(Trim(currentChunk)) <= 100
    /\ ctChunks = <<ctArgs.text>>

----------------------------------------------------------------------------
(* generateEmbedding (app/layout.tsx)                                       *)
(* A vector is a sequence of integers in units of 1 / Scale. What the       *)
(* provider does with a request is an outcome: a vector, the rejection of   *)
(* the key (401), or another failure.                                       *)

ProviderVector(v) == [kind |-> "vector", v |-> v]
ProviderRejectsKey == [kind |-> "401", v |-> <<>>]
ProviderFails == [kind |-> "failure", v |-> <<>>]

RECURSIVE SumSquares(_)
SumSquares(v) == IF v = <<>> THEN 0 ELSE Head(v) * Head(v) + SumSquares(Tail(v))

RECURSIVE SumAbs(_)
SumAbs(v) == IF v = <<>> THEN 0 ELSE Abs(Head(v)) + SumAbs(Tail(v))

RECURSIVE MaxAbs(_)
MaxAbs(v) == IF v = <<>> THEN 0 ELSE Max(Abs(Head(v)), MaxAbs(Tail(v)))

\* Math.sqrt(embedding.reduce((sum, val) => sum + val * val, 0)), to the unit
\* below: the root lies between the largest component and their sum
Norm(v) ==
    CHOOSE r \in MaxAbs(v)..SumAbs(v) :
        r * r <= SumSquares(v) /\ SumSquares(v) < (r + 1) * (r + 1)

\* if (norm > 0) embedding = embedding.map((val) => val / norm)
Normalize(v) ==
    IF Norm(v) > 0 THEN [i \in DOMAIN v |-> (v[i] * Scale) \div Norm(v)] ELSE v

Embedded(v) == [status |-> "ok", embedding |-> v, error |-> "none"]
EmbedError(e) == [status |-> "error", embedding |-> <<>>, error |-> e]

\* Whether generateEmbedding sends a request to the provider
CallsProvider(str, keyConfigured) == ~TrimmedEmpty(str) /\ keyConfigured

generateEmbeddingBad(str, keyConfigured, outcome) ==
    IF TrimmedEmpty(str) \/ outcome.kind # "vector" THEN Embedded(<<0, 0>>)
    ELSE IF ~keyConfigured THEN EmbedError("no key")
    ELSE Embedded(Normalize(outcome.v))

\* generateEmbedding(text), with what the provider does if it is asked
generateEmbedding(str, keyConfigured, outcome) ==
    IF TrimmedEmpty(str) THEN EmbedError("empty text")
    ELSE IF ~keyConfigured THEN EmbedError("no key")
    ELSE IF outcome.kind = "vector" THEN Embedded(Normalize(outcome.v))
    ELSE IF outcome.kind = "401" THEN EmbedError("invalid key")
    ELSE EmbedError("provider")

----------------------------------------------------------------------------
(* The ingestion of a document (POST handler, from the chunks on)           *)

MaxChunks == 2

DocNames == << <<"d1">>, <<"d2">>, <<"d3">> >>
ChunkNames == << <<"c1">>, <<"c2">>, <<"c3">> >>

\* The chunks chunkText made of document d: n texts, none blank
DocChunks(d, n) == [k \in 1..n |-> DocNames[d] \o <<" ">> \o ChunkNames[k]]

\* The vector the embedding model computes for a text: the same for the same
\* text, and of norm 0 for one of the chunks
ModelVector(str) == IF str = DocChunks(2, 1)[1] THEN <<0, 0>> ELSE <<3, 4>>

\* What the provider may do with a request for the embedding of str
ProviderOutcomes(str) == {ProviderVector(ModelVector(str)), ProviderFails}

\* number[] as a JavaScript value
NumberArray(v) == [i \in DOMAIN v |-> Num(v[i])]

NoResponse == [success |-> FALSE, chunks_created |-> 0, chunks_total |-> 0,
               failed_chunks |-> 0]

\* NextResponse.json({ success: true, ... }) after the loop
IngestResponse(h) ==
    [success |-> TRUE, chunks_created |-> h.chunksCreated,
     chunks_total |-> Len(h.chunks), failed_chunks |-> Len(h.failedChunks)]

\* chunks[i]
ChunkAtBad(chunks, i) == chunks[Len(chunks) - i]

ChunkAt(chunks, i) == chunks[i + 1]

SettledBad(h, ok) ==
    LET counted == IF ok THEN [h EXCEPT !.chunksCreated = @ + 1]
                   ELSE [h EXCEPT !.failedChunks = Append(@, h.i)]
    IN  IF ok /\ counted.i + 1 < Len(h.chunks)
        THEN [counted EXCEPT !.i = @ + 1, !.pc = "embed"]
        ELSE [counted EXCEPT !.i = @ + 1, !.pc = "done",
                             !.response = IngestResponse(counted)]

\* The end of one turn of the loop, ok when the try block of chunk i went
\* through and not when the catch took it: the counters move, and the loop
\* goes on with the next chunk or the handler responds.
Settled(h, ok) ==
    LET counted == IF ok THEN [h EXCEPT !.chunksCreated = @ + 1]
                   ELSE [h EXCEPT !.failedChunks = Append(@, h.i)]
    IN  IF counted.i + 1 < Len(h.chunks)
        THEN [counted EXCEPT !.i = @ + 1, !.pc = "embed"]
        ELSE [counted EXCEPT !.i = @ + 1, !.pc = "done",
                             !.response = IngestResponse(counted)]

\* The handler has its chunks and calls generateEmbedding for the first
IngestStart(d) ==
    /\ ing[d].pc = "none"
    /\ \A e \in 1..(d - 1) : ing[e].pc # "none"
    /\ \E n \in 1..MaxChunks :
          ing' = [ing EXCEPT ![d] =
                    [pc |-> "embed", doc |-> DocNames[d], chunks |-> DocChunks(d, n),
                     i |-> 0, chunksCreated |-> 0, failedChunks |-> <<>>,
                     calls |-> <<>>, embedded |-> <<>>, response |-> NoResponse]]
    /\ UNCHANGED <<storeVars, rankVars, chunkVars, embed, chat, health, ui>>

\* generateEmbedding(chunks[i]) settles: with a vector, appendChunk is
\* called; with an error, the catch counts the chunk as failed.
IngestEmbedded(d) ==
    /\ ing[d].pc = "embed"
    /\ LET h == ing[d]
           chunk == ChunkAt(h.chunks, h.i)
       IN  \E outcome \in ProviderOutcomes(chunk) :
             LET r == generateEmbedding(chunk, TRUE, outcome) IN
             IF r.status = "ok"
             THEN \E c \in Callers :
                    /\ StartAppend(c, Chunk(h.doc, chunk, NumberArray(r.embedding)))
                    /\ ing' = [ing EXCEPT ![d] =
                                 [h EXCEPT !.pc = "append",
                                           !.calls = Append(@, c),
                                           !.embedded = Append(@, h.i)]]
             ELSE /\ ing' = [ing EXCEPT ![d] =
                               Settled([h EXCEPT !.embedded = Append(@, h.i)], FALSE)]
                  /\ UNCHANGED <<storeVars, rankVars, chunkVars>>
    /\ UNCHANGED <<embed, chat, health, ui>>

\* await appendChunk(...): the handler goes on when the call has settled
AppendSettledBad(c) == pc[c] # "idle"

AppendSettled(c) == pc[c] = "done"

\* appendChunk settles: the chunk is counted as created, or the catch
\* counts it as failed.
IngestAppended(d) ==
    /\ ing[d].pc = "append"
    /\ LET c == ing[d].calls[Len(ing[d].calls)]
       IN  /\ AppendSettled(c)
           /\ ing' = [ing EXCEPT ![d] = Settled(ing[d], result[c].status = "ok")]
    /\ UNCHANGED <<storeVars, rankVars, chunkVars, embed, chat, health, ui>>

InitIngest == Init

NextIngest ==
    \/ \E d \in Ingests : IngestStart(d) \/ IngestEmbedded(d) \/ IngestAppended(d)
    \/ \E c \in Callers :
          AppendFile(c) \/ AppendFileRest(c)

SpecIngest == InitIngest /\ [][NextIngest]_vars

----------------------------------------------------------------------------
(* Claims on the ingestion *)

Finished(d) == ing[d].pc = "done"

\* The records in the file that the calls of ingestion d wrote
RecordsOf(d) ==
    SelectSeq(ParseFile(file).chunks,
              LAMBDA ch : \E k \in DOMAIN ing[d].calls :
                             Prop(ch, "id") = Prop(fullChunk[ing[d].calls[k]], "id"))

\* The text of chunk k of ingestion d as a record carries it
TextOf(d, k) == Str(ing[d].chunks[k])

\* C21: when an ingestion of N chunks finishes, every chunk was embedded
\* whatever failed before it, chunks_created + failed_chunks = chunks_total
\* = N, and the store holds exactly chunks_created records of the document
\* written by this ingestion, no chunk twice.
PartialSuccess ==
    \A d \in Ingests :
       Finished(d) =>
          LET h == ing[d]
              N == Len(h.chunks)
              recs == RecordsOf(d)
          IN  /\ h.embedded = [k \in 1..N |-> k - 1]
              /\ h.response.chunks_created + h.response.failed_chunks = N
              /\ h.response.chunks_total = N
              /\ h.response.chunks_created = h.chunksCreated
              /\ h.response.failed_chunks = Len(h.failedChunks)
              /\ Len(recs) = h.chunksCreated
              /\ \A p \in DOMAIN recs : Prop(recs[p], "doc") = Str(h.doc)
              /\ \A p, q \in DOMAIN recs :
                    Prop(recs[p], "text") = Prop(recs[q], "text") => p = q

\* An ingestion of two chunks has finished: the embedding of the first
\* failed, the second was embedded and appended.
PartialSuccessWitness ==
    \E d \in Ingests :
       /\ Finished(d)
       /\ Len(ing[d].chunks) = 2
       /\ ing[d].failedChunks = <<0>>
       /\ Len(ing[d].calls) = 1
       /\ ing[d].chunksCreated = 1
       /\ Len(RecordsOf(d)) = 1

\* C22: an ingestion during which an appendChunk call failed does not
\* respond with success.
StorageFailureSurfaced ==
    \A d \in Ingests :
       Finished(d) /\ (\E k \in DOMAIN ing[d].calls :
                          result[ing[d].calls[k]].status = "error")
          => ~ing[d].response.success

\* The squared norm of a stored embedding, in units of 1/Scale^2
StoredSumSquares(ch) ==
    LET emb == Prop(ch, "embedding").a
    IN  SumSquares([i \in DOMAIN emb |-> emb[i].n])

\* C24: every embedding in the store has norm 1; none is the zero vector.
StoredUnitNorm ==
    \A p \in DOMAIN ParseFile(file).chunks :
       StoredSumSquares(ParseFile(file).chunks[p]) = Scale * Scale

\* C27: an ingestion that awaits an embedding holds no lock and has no call
\* waiting for it: every appendChunk call it made has settled. A call waits
\* in the queue only while another call is writing its record.
NoLockWhileEmbedding ==
    /\ \A d \in Ingests :
          ing[d].pc = "embed" =>
             \A k \in DOMAIN ing[d].calls :
                /\ holder # ing[d].calls[k]
                /\ pc[ing[d].calls[k]] = "done"
    /\ queue # <<>> => holder # 0 /\ pc[holder] \in {"a_write", "a_rest"}

\* An ingestion awaits the embedding of its second chunk while the call of
\* another ingestion holds the lock.
NoLockWhileEmbeddingWitness ==
    \E d, e \in Ingests :
       /\ d # e
       /\ ing[d].pc = "embed"
       /\ Len(ing[d].calls) = 1
       /\ ing[e].pc = "append"
       /\ holder = ing[e].calls[Len(ing[e].calls)]

\* The position in the chunker's output of the text a record carries
RECURSIVE PositionOf(_, _, _)
PositionOf(d, ch, k) ==
    IF k > Len(ing[d].chunks) THEN 0
    ELSE IF Prop(ch, "text") = TextOf(d, k) THEN k
    ELSE PositionOf(d, ch, k + 1)

\* C30: the records of one ingestion are in the file in the order the
\* chunker produced their chunks, whatever other ingestions wrote between
\* them.
ChunkerOrder ==
    \A d \in Ingests :
       ing[d].pc # "none" =>
          LET recs == RecordsOf(d) IN
          \A p, q \in DOMAIN recs :
             p < q => PositionOf(d, recs[p], 1) < PositionOf(d, recs[q], 1)

\* Both chunks of one document are in the file with a record of another
\* document between them.
ChunkerOrderWitness ==
    /\ Len(ParseFile(file).chunks) = 3
    /\ \E d \in Ingests :
          /\ Len(RecordsOf(d)) = 2
          /\ Prop(ParseFile(file).chunks[2], "doc") # Str(ing[d].doc)

----------------------------------------------------------------------------
(* generateEmbedding called on its own *)

MaxEmbeds == 3

\* The texts handed to generateEmbedding: empty, white space only, and with
\* ink
EmbedTexts ==
    {<<>>, <<" ">>, <<" ", " ">>, DocChunks(1, 1)[1], DocChunks(2, 1)[1],
     <<" ">> \o DocChunks(1, 2)[2] \o <<" ">>}

\* text.trim(), for a text with ink
TrimInked(str) ==
    LET inked == {i \in DOMAIN str : ~IsSpace(str[i])}
        first == CHOOSE i \in inked : \A j \in inked : i <= j
        last == CHOOSE i \in inked : \A j \in inked : j <= i
    IN  SubSeq(str, first, last)

\* What the provider may answer to a request made with some key
ProviderAnswers(str) == ProviderOutcomes(str) \cup {ProviderRejectsKey}

NoEmbedding == [status |-> "none", embedding |-> <<>>, error |-> "none"]

\* A call of generateEmbedding up to its first await: it has thrown, or the
\* request is with the provider.
EmbedCall ==
    /\ embed.pc \in {"none", "done"}
    /\ embed.pc = "done" => Len(embed.settled) < MaxEmbeds
    /\ \E str \in EmbedTexts, keyConfigured \in BOOLEAN :
          LET before == IF embed.pc = "none" THEN <<>> ELSE embed.settled
              h == [pc |-> "await", text |-> str, keyConfigured |-> keyConfigured,
                    requests |-> <<>>, outcome |-> ProviderFails,
                    result |-> NoEmbedding, settled |-> before]
          IN  IF CallsProvider(str, keyConfigured)
              THEN embed' = [h EXCEPT !.requests = <<TrimInked(str)>>]
              ELSE LET r == generateEmbedding(str, keyConfigured, ProviderFails)
                   IN  embed' = [h EXCEPT !.pc = "done", !.result = r,
                                          !.settled = Append(@, r.status)]
    /\ UNCHANGED <<storeVars, rankVars, chunkVars, ing, chat, health, ui>>

\* The provider answers and the call settles.
EmbedSettle ==
    /\ embed.pc = "await"
    /\ \E outcome \in ProviderAnswers(embed.requests[1]) :
          LET r == generateEmbedding(embed.text, embed.keyConfigured, outcome)
          IN  embed' = [embed EXCEPT !.pc = "done", !.outcome = outcome,
                                     !.result = r,
                                     !.settled = Append(@, r.status)]
    /\ UNCHANGED <<storeVars, rankVars, chunkVars, ing, chat, health, ui>>

InitEmbed == Init

NextEmbed == EmbedCall \/ EmbedSettle

SpecEmbed == InitEmbed /\ [][NextEmbed]_vars

\* C23: generateEmbedding fails for a text that is empty or white space
\* only, without a request to the provider; when the provider fails the call
\* fails with the provider's error; a call that fails returns no vector, and
\* the vector of a call that succeeds is the provider's, normalised.
EmbeddingFailsLoudly ==
    embed.pc = "done" =>
       /\ TrimmedEmpty(embed.text) =>
             /\ embed.result = EmbedError("empty text")
             /\ embed.requests = <<>>
       /\ embed.requests # <<>> /\ embed.outcome.kind # "vector" =>
             /\ embed.result.status = "error"
             /\ embed.result.error =
                   (IF embed.outcome.kind = "401" THEN "invalid key" ELSE "provider")
       /\ embed.result.status = "error" => embed.result.embedding = <<>>
       /\ embed.result.status = "ok" =>
             /\ embed.requests # <<>>
             /\ embed.outcome.kind = "vector"
             /\ embed.result.embedding = Normalize(embed.outcome.v)

\* A call with a text of white space has failed after a call that failed
\* and one that returned a vector.
EmbeddingFailsLoudlyWitness ==
    /\ embed.pc = "done"
    /\ embed.text = <<" ", " ">>
    /\ embed.keyConfigured
    /\ embed.result.status = "error"
    /\ embed.settled = <<"ok", "error", "error">>

----------------------------------------------------------------------------
(* The chat handler (POST, without streaming) *)

\* The chunks in the store when questions are asked: appended by earlier
\* ingestions, one of them with an embedding of another dimension
QueryChunks ==
    {Chunk(<<"a.txt">>, CatText, <<Num(1200), Num(1600)>>),
     Chunk(<<"b.txt">>, StockText, <<Num(2000)>>)}

Questions == {<<>>, <<" ">>, <<"cat">>, Words(<<"Where", "did", "the", "cat", "sit">>)}

\* allChunks.map((c) => ({ id, doc, text, embedding }))
Candidate(ch) ==
    [id |-> Prop(ch, "id").s, doc |-> Prop(ch, "doc").s, text |-> Prop(ch, "text").s,
     embedding |-> [i \in DOMAIN Prop(ch, "embedding").a |->
                       Prop(ch, "embedding").a[i].n]]

CandidatesOf(chunks) == [i \in DOMAIN chunks |-> Candidate(chunks[i])]

\* NextResponse.json(..., { status }), with the ids of retrieved_chunks
ChatResponse(status, retrieved) == [status |-> status, retrieved_chunks |-> retrieved]

Responded(h, status, retrieved) ==
    [h EXCEPT !.pc = "done", !.response = ChatResponse(status, retrieved)]

IdsOf(ranked) == [i \in DOMAIN ranked |-> ranked[i].id]

\* rankChunks(question, queryEmbedding, candidates, 3) and what follows it
RankedWith(h, queryEmbedding) ==
    LET r == rankChunks(h.question, queryEmbedding, CandidatesOf(h.allChunks), 3)
    IN  IF r.status = "error"
        THEN Responded([h EXCEPT !.rankedWith = <<queryEmbedding>>], 500, <<>>)
        ELSE [h EXCEPT !.pc = "llm", !.rankedWith = <<queryEmbedding>>,
                       !.rankedChunks = IdsOf(r.ranked)]

AfterEmbeddingBad(h, r) ==
    RankedWith([h EXCEPT !.embedding = r],
               IF r.status = "error" THEN <<0, 0>> ELSE r.embedding)

\* await generateEmbedding(question) settles with r: an error goes to the
\* catch of the handler, a vector to rankChunks.
AfterEmbedding(h, r) ==
    IF r.status = "error"
    THEN Responded([h EXCEPT !.embedding = r], 500, <<>>)
    ELSE RankedWith([h EXCEPT !.embedding = r], r.embedding)

\* The handler up to its first await that leaves it: rate limit and empty
\* question answer at once, otherwise loadAllChunks is called.
ChatStart ==
    /\ chat.pc = "none"
    /\ \E question \in Questions, limited \in BOOLEAN :
          LET h == [pc |-> "load", question |-> question, call |-> 0,
                    allChunks |-> <<>>, embedding |-> NoEmbedding,
                    rankedWith |-> <<>>, rankedChunks |-> <<>>, prompted |-> FALSE,
                    response |-> ChatResponse(0, <<>>)]
          IN  IF limited
              THEN /\ chat' = Responded(h, 429, <<>>)
                   /\ UNCHANGED <<storeVars, rankVars, chunkVars>>
              ELSE IF TrimmedEmpty(question)
              THEN /\ chat' = Responded(h, 400, <<>>)
                   /\ UNCHANGED <<storeVars, rankVars, chunkVars>>
              ELSE \E c \in Callers :
                      /\ StartLoad(c)
                      /\ chat' = [h EXCEPT !.call = c]
    /\ UNCHANGED <<ing, embed, health, ui>>

\* loadAllChunks settles: a failure goes to the catch, an empty store is
\* answered with 400, otherwise the question is sent to be embedded.
ChatLoaded ==
    /\ chat.pc = "load"
    /\ pc[chat.call] = "done"
    /\ LET r == result[chat.call] IN
       chat' = IF r.status = "error" THEN Responded(chat, 500, <<>>)
               ELSE IF r.chunks = <<>> THEN Responded(chat, 400, <<>>)
               ELSE [chat EXCEPT !.pc = "embed", !.allChunks = r.chunks]
    /\ UNCHANGED <<storeVars, rankVars, chunkVars, ing, embed, health, ui>>

\* generateEmbedding(question) settles.
ChatEmbedded ==
    /\ chat.pc = "embed"
    /\ \E keyConfigured \in BOOLEAN,
          outcome \in ProviderAnswers(TrimInked(chat.question)) :
          chat' = AfterEmbedding(chat,
                     generateEmbedding(chat.question, keyConfigured, outcome))
    /\ UNCHANGED <<storeVars, rankVars, chunkVars, ing, embed, health, ui>>

\* Both completions settle: the answers and the retrieved chunks are
\* returned, or the failure of a completion goes to the catch.
ChatAnswered ==
    /\ chat.pc = "llm"
    /\ \E fail \in BOOLEAN :
          chat' = IF fail THEN Responded([chat EXCEPT !.prompted = TRUE], 500, <<>>)
                  ELSE Responded([chat EXCEPT !.prompted = TRUE], 200,
                                 chat.rankedChunks)
    /\ UNCHANGED <<storeVars, rankVars, chunkVars, ing, embed, health, ui>>

InitQuery == Init

NextQuery ==
    \/ ChatStart \/ ChatLoaded \/ ChatEmbedded \/ ChatAnswered
    \/ \E c \in Callers :
          \/ \E chunk \in QueryChunks : AppendEnsureDir(c, chunk)
          \/ AppendFile(c) \/ AppendFileRest(c) \/ LoadRead(c)

SpecQuery == InitQuery /\ [][NextQuery]_vars

----------------------------------------------------------------------------
(* The query submission of the two UI components: handleSubmit of the page  *)
(* and handleInference of the useRAG hook                                   *)

MaxRequests == 3
MaxTokens == 2

Requests == 1..MaxRequests

NoRequest == [pc |-> "none", aborted |-> FALSE, tokens |-> 0]
NoResults == [shell |-> 0, answer |-> 0, tokens |-> 0, failed |-> FALSE]

\* The component after its first render: no results, not loading, no
\* controller in the ref. rendered is the isLoading that the closures of the
\* last render read; isLoading is the state React will render next.
Mounted(component) ==
    [pc |-> "mounted", component |-> component, isLoading |-> FALSE,
     rendered |-> FALSE, ref |-> 0, results |-> NoResults, started |-> 0,
     reqs |-> [r \in Requests |-> NoRequest], stale |-> {}]

Mount ==
    /\ ui.pc = "none"
    /\ \E component \in {"page", "hook"} : ui' = Mounted(component)
    /\ UNCHANGED <<storeVars, rankVars, chunkVars, ing, embed, chat, health>>

\* React renders the component with the current state.
Render ==
    /\ ui.pc = "mounted"
    /\ ui.rendered # ui.isLoading
    /\ ui' = [ui EXCEPT !.rendered = ui.isLoading]
    /\ UNCHANGED <<storeVars, rankVars, chunkVars, ing, embed, chat, health>>

\* The updates that request r applies to the state of the component, noted
\* when a newer request has started
Applied(h, r, kinds) ==
    IF r < h.started
    THEN [h EXCEPT !.stale = @ \cup {[req |-> r, kind |-> k] : k \in kinds}]
    ELSE h

\* The handler up to its await, called with a query that is not blank: it
\* returns if the isLoading of its render is set; otherwise the controller
\* in the ref is aborted, a new one takes its place, loading is set (the
\* hook also puts empty results in place) and the request is sent.
Submit ==
    /\ ui.pc = "mounted"
    /\ ~ui.rendered
    /\ ui.started < MaxRequests
    /\ LET r == ui.started + 1
           aborted == IF ui.ref # 0
                      THEN [ui.reqs EXCEPT ![ui.ref].aborted = TRUE]
                      ELSE ui.reqs
       IN  ui' = [ui EXCEPT
                    !.started = r,
                    !.ref = r,
                    !.isLoading = TRUE,
                    !.results = IF ui.component = "hook"
                                THEN [NoResults EXCEPT !.shell = r]
                                ELSE @,
                    !.reqs = [aborted EXCEPT ![r] = [NoRequest EXCEPT !.pc = "flight"]]]
    /\ UNCHANGED <<storeVars, rankVars, chunkVars, ing, embed, chat, health>>

\* finally of handleSubmit: setIsLoading(false) and the ref is emptied
PageFinally(h, r) ==
    Applied([h EXCEPT !.isLoading = FALSE, !.ref = 0, !.reqs[r].pc = "done"],
            r, {"loading", "handle"})

\* axios.post of handleSubmit settles and the handler runs to its end: the
\* data of a response become the results, a cancellation or failure is
\* caught, and finally runs.
PageSettled(r) ==
    /\ ui.pc = "mounted"
    /\ ui.component = "page"
    /\ ui.reqs[r].pc = "flight"
    /\ \E ok \in BOOLEAN :
          ui' = IF ui.reqs[r].aborted \/ ~ok
                THEN PageFinally(ui, r)
                ELSE PageFinally(
                        Applied([ui EXCEPT !.results =
                                    [shell |-> r, answer |-> r, tokens |-> 0,
                                     failed |-> FALSE]],
                                r, {"results"}), r)
    /\ UNCHANGED <<storeVars, rankVars, chunkVars, ing, embed, chat, health>>

\* finally of handleInference: setIsLoading(false)
HookFinally(h, r) ==
    Applied([h EXCEPT !.isLoading = FALSE, !.reqs[r].pc = "done"], r, {"loading"})

\* setResults(prev => prev ? { ...prev, rag_answer: ... } : null) by request r
Answered(h, r, tokens, failed) ==
    IF h.results.shell = 0 THEN h
    ELSE Applied([h EXCEPT !.results.answer = r, !.results.tokens = tokens,
                           !.results.failed = failed],
                 r, {IF failed THEN "results" ELSE "tokens"})

\* fetch of handleInference settles: an abort goes to finally, a rejection
\* or a response that is not ok puts the error text in the results, a
\* response that is ok is read.
HookFetched(r) ==
    /\ ui.pc = "mounted"
    /\ ui.component = "hook"
    /\ ui.reqs[r].pc = "flight"
    /\ \E ok \in BOOLEAN :
          ui' = IF ui.reqs[r].aborted THEN HookFinally(ui, r)
                ELSE IF ~ok THEN HookFinally(Answered(ui, r, 0, TRUE), r)
                ELSE [ui EXCEPT !.reqs[r].pc = "stream"]
    /\ UNCHANGED <<storeVars, rankVars, chunkVars, ing, embed, chat, health>>

\* reader.read() settles: an abort goes to finally, a token is added to the
\* answer, the end of the stream leaves the loop.
HookRead(r) ==
    /\ ui.pc = "mounted"
    /\ ui.component = "hook"
    /\ ui.reqs[r].pc = "stream"
    /\ \E done \in BOOLEAN :
          ui' = IF ui.reqs[r].aborted \/ done \/ ui.reqs[r].tokens = MaxTokens
                THEN HookFinally(ui, r)
                ELSE Answered([ui EXCEPT !.reqs[r].tokens = @ + 1], r,
                              ui.reqs[r].tokens + 1, FALSE)
    /\ UNCHANGED <<storeVars, rankVars, chunkVars, ing, embed, chat, health>>

InitUI == Init

NextUI ==
    \/ Mount \/ Render \/ Submit
    \/ \E r \in Requests : PageSettled(r) \/ HookFetched(r) \/ HookRead(r)

SpecUI == InitUI /\ [][NextUI]_vars

\* C26: no update of the component's state (results, tokens, loading flag,
\* controller ref) is made by a request after a newer request has started.
LastRequestWins == ui.pc = "mounted" => ui.stale = {}

----------------------------------------------------------------------------
(* The health handler (GET) *)

NoHealth == [status |-> "none", chunks |-> 0, documents |-> 0]

\* new Set(chunks.map((c) => c.doc)).size
DocumentCount(chunks) == Cardinality({Prop(chunks[i], "doc") : i \in DOMAIN chunks})

\* The handler up to the read of getChunkCount
HealthStart ==
    /\ health.pc = "none"
    /\ \E c \in Callers :
          /\ StartLoad(c)
          /\ health' = [pc |-> "chunks", call |-> c, chunks |-> 0,
                        response |-> NoHealth]
    /\ UNCHANGED <<ing, embed, chat, ui>>

\* getChunkCount settles: its failure goes to the catch, otherwise
\* getDocumentCount is called and loads the chunks again.
HealthCounted ==
    /\ health.pc = "chunks"
    /\ pc[health.call] = "done"
    /\ LET r == result[health.call] IN
       IF r.status = "error"
       THEN /\ health' = [health EXCEPT !.pc = "done",
                                        !.response = [NoHealth EXCEPT !.status = "error"]]
            /\ UNCHANGED <<storeVars, rankVars, chunkVars>>
       ELSE \E c \in Callers :
               /\ StartLoad(c)
               /\ health' = [health EXCEPT !.pc = "documents", !.call = c,
                                           !.chunks = Len(r.chunks)]
    /\ UNCHANGED <<ing, embed, chat, ui>>

\* getDocumentCount settles and the handler responds.
HealthResponded ==
    /\ health.pc = "documents"
    /\ pc[health.call] = "done"
    /\ LET r == result[health.call] IN
       health' = [health EXCEPT
                    !.pc = "done",
                    !.response =
                       IF r.status = "error" THEN [NoHealth EXCEPT !.status = "error"]
                       ELSE [status |-> "ok", chunks |-> health.chunks,
                             documents |-> DocumentCount(r.chunks)]]
    /\ UNCHANGED <<storeVars, rankVars, chunkVars, ing, embed, chat, ui>>

InitStats == Init

NextStats ==
    \/ HealthStart \/ HealthCounted \/ HealthResponded
    \/ \E c \in Callers :
          \/ \E chunk \in QueryChunks : AppendEnsureDir(c, chunk)
          \/ AppendFile(c) \/ AppendFileRest(c) \/ LoadRead(c)
          \/ CallClear(c) \/ ClearUnlink(c)

SpecStats == InitStats /\ [][NextStats]_vars

\* C28: the chunks and documents of one health response describe one state
\* of the store: documents <= chunks, and documents = 0 exactly when
\* chunks = 0.
StatsOneState ==
    health.pc = "done" /\ health.response.status = "ok" =>
       /\ health.response.documents <= health.response.chunks
       /\ health.response.documents = 0 <=> health.response.chunks = 0

----------------------------------------------------------------------------
(* The mutations of the store under fair scheduling *)

InitFair == Init

\* appendChunk and clearChunks calls in any number and order; what is
\* appended has no part in what the lock does
NextFair ==
    \E c \in Callers :
       \/ AppendEnsureDir(c, ChunkA)
       \/ AppendFile(c) \/ AppendFileRest(c)
       \/ CallClear(c) \/ ClearUnlink(c)

\* Every file operation that was started settles, and the event loop runs
\* what waits for it.
Fairness ==
    \A c \in Callers :
       /\ WF_vars(AppendFile(c))
       /\ WF_vars(AppendFileRest(c))
       /\ WF_vars(ClearUnlink(c))

SpecFair == InitFair /\ [][NextFair]_vars /\ Fairness

\* A call that has handed its task to the lock and has not settled
Pending(c) == pc[c] \in {"a_wait", "a_write", "a_rest", "c_wait", "c_unlink"}

\* C29: a call that has settled, with or without error, does not hold the
\* lock, and every appendChunk and clearChunks call that has handed its task
\* to the lock eventually settles.
EveryCallSettles ==
    /\ [](\A c \in Callers : pc[c] = "done" => holder # c)
    /\ \A c \in Callers : Pending(c) ~> (pc[c] = "done")

\* The first call failed with a storage error; the second holds the lock
\* after it, and the third waits in the queue.
EveryCallSettlesWitness ==
    /\ pc[1] = "done"
    /\ result[1].status = "error"
    /\ holder = 2
    /\ queue = <<3>>

====
